---- MODULE Spec2Model ----
(***************************************************************************)
(* Prediction telemetry and drift monitoring of mlops_churn:                *)
(*   database.py         the lazily built psycopg2 ThreadedConnectionPool   *)
(*                       and the three operations that borrow a connection  *)
(*   app.py              the /predict handler, which logs each prediction   *)
(*   drift_detection.py  detect_drift and its windowed read                 *)
(*                                                                          *)
(* A process runs several Python threads.  Each thread is idle or inside    *)
(* one top-level call (predict, initialize_database, detect_drift); its     *)
(* locals are the fields of frame[t].  A step is one interaction with the   *)
(* shared state (the module globals, the pool, the database), together with *)
(* the thread-local code up to the next such interaction.                   *)
(*                                                                          *)
(* The pool is psycopg2's: getconn pops an idle connection, else opens a    *)
(* new one unless maxconn are in use (PoolError, raised at once); putconn   *)
(* keeps the connection idle while fewer than minconn are idle and closes   *)
(* it otherwise.  Connections are counted, not named.                       *)
(***************************************************************************)
EXTENDS Integers, FiniteSets, Sequences, TLC

\* ---------------------------------------------------------------- constants

\* database.py:22  minconn=1
minconn == 1
\* database.py:23  maxconn=5
maxconn == 5
\* drift_detection.py:35  len(rows) >= 10
MinSample == 10
\* drift_detection.py:31  LIMIT 50
RowLimit == 50
\* drift_detection.py:32  timedelta(days=7)
WindowDays == 7
\* drift_detection.py:64-80  14 numerical columns and 1 categorical column
NumFeatures == 15

\* ---------------------------------------------------------------- bounds

\* Rows the processes may add to the predictions table in a run.
MaxInserts == 1
\* The drift_reports table accepts inserts while it holds fewer rows than this.
MaxReports == 1
\* Threads of the process that runs drift checks beside other calls.
JobThreads == 1

\* Threads of the serving process: one more than the pool has connections.
ServingThreads == maxconn + 1

\* The instants of the clock, in days: the start, the last day on which a row
\* written at the start is inside the window, and the first day it is not.
Instants == {0, WindowDays, WindowDays + 1}
\* Rows the predictions table may hold, all written at the start.
InitialRows == {0, MinSample - 1, RowLimit + 1}
\* Drifted-column counts the report may give: either side of half the columns.
DriftedChoices == {7, 8}
\* The tables initialize_database creates.
AllTables == {"predictions", "drift_reports"}

VARIABLES
    connection_pool,  \* database.py:12  _connection_pool: 0 is None, else the pool object's id
    pool_lock,        \* database.py:13  _pool_lock: 0 is free, else the holding thread
    constructed,      \* number of ThreadedConnectionPool objects constructed so far
    pool_idle,        \* the pool's _pool: idle connections
    pool_used,        \* the pool's _used: connections handed out
    direct,           \* connections opened by psycopg2.connect, outside the pool
    schema,           \* the tables that exist in the database
    predictions,      \* predictions table: instant -> number of rows with that timestamp
    inserted,         \* rows added to the predictions table since the start
    drift_reports,    \* drift_reports table: sequence of rows
    now,              \* the clock, in days
    frame,            \* thread -> its locals
    last              \* the outcome of the call that returned most recently

vars == <<connection_pool, pool_lock, constructed, pool_idle, pool_used, direct,
          schema, predictions, inserted, drift_reports, now, frame, last>>

Threads == DOMAIN frame

\* ---------------------------------------------------------------- frames

\* The locals of a thread that is not inside a call.
IdleFrame ==
    [pc |-> "idle", op |-> "none", pool |-> 0, conn |-> FALSE, cur |-> FALSE,
     ret |-> "none", exc |-> "none", err |-> "none", attempts |-> 0,
     committed |-> FALSE, called_log |-> FALSE, rows |-> -1, path |-> "none"]

\* No call has returned yet.
NoCall ==
    [op |-> "none", result |-> "none", log_success |-> "none", ret |-> "none",
     exc |-> "none", err |-> "none", attempts |-> 0, committed |-> FALSE,
     called_log |-> FALSE, rows |-> -1, path |-> "none"]

\* ---------------------------------------------------------------- the pool

\* getconn without the test of maxconn: a new connection whenever none is idle.
getconn_no_limit(idle, used, connect_ok) ==
    IF idle > 0
    THEN [ok |-> TRUE, idle |-> idle - 1, used |-> used + 1, error |-> "none"]
    ELSE IF connect_ok
    THEN [ok |-> TRUE, idle |-> idle, used |-> used + 1, error |-> "none"]
    ELSE [ok |-> FALSE, idle |-> idle, used |-> used,
          error |-> "ConnectionUnavailable"]

\* pool.getconn() of psycopg2's ThreadedConnectionPool, under the pool's own
\* lock: an idle connection if there is one; PoolError at once when maxconn
\* are in use; else a new connection, which the server may refuse.
getconn(idle, used, connect_ok) ==
    IF idle > 0
    THEN [ok |-> TRUE, idle |-> idle - 1, used |-> used + 1, error |-> "none"]
    ELSE IF used = maxconn
    THEN [ok |-> FALSE, idle |-> idle, used |-> used, error |-> "PoolExhausted"]
    ELSE IF connect_ok
    THEN [ok |-> TRUE, idle |-> idle, used |-> used + 1, error |-> "none"]
    ELSE [ok |-> FALSE, idle |-> idle, used |-> used,
          error |-> "ConnectionUnavailable"]

\* pool.putconn(conn): the connection leaves _used; it is kept idle while
\* fewer than minconn connections are idle and closed otherwise.
putconn(idle, used) ==
    [idle |-> IF idle < minconn THEN idle + 1 ELSE idle, used |-> used - 1]

\* The connection put back only by a call that succeeded.
return_connection_on_success(f, idle, used) ==
    IF f.conn /\ f.ret = "True"
    THEN putconn(idle, used)
    ELSE [idle |-> idle, used |-> used]

\* return_connection(conn): a None handle is left alone.
return_connection(f, idle, used) ==
    IF f.conn THEN putconn(idle, used) ELSE [idle |-> idle, used |-> used]

\* The lock taken, the test not repeated.
NeedsConstruction_unchecked == TRUE

\* The second test of _connection_pool, made while holding _pool_lock.
NeedsConstruction == connection_pool = 0

\* ---------------------------------------------------------------- callers

\* get_db_connection's handler: the error is logged and None is returned.
get_db_connection_except(f, error) ==
    [f EXCEPT !.conn = FALSE, !.err = error]

\* The handler of the database functions: the error is logged and False is
\* the return value.
log_except(f, path) ==
    [f EXCEPT !.ret = "False", !.exc = "none", !.path = path]

\* A finally block that ends in `return True`.
Delivered_finally_return(f) == [value |-> "True", exc |-> "none"]

\* What a database function hands to its caller once its finally block has
\* run: the value its return statement saved, or the exception in flight.
Delivered(f) == [value |-> f.ret, exc |-> f.exc]

\* predict answering with an error when the log failed.
PredictResponse_strict(d) ==
    IF d.exc # "none" \/ d.value # "True" THEN "500" ELSE "200"

\* predict after log_prediction: a failed log is a warning, the response is
\* the prediction; an exception ends in the handler's own except clause.
PredictResponse(d) ==
    IF d.exc # "none" THEN "500" ELSE "200"

\* detect_drift after log_drift_result: the returned value is dropped, the
\* summary is printed and True is returned.  "raised" stands for an exception
\* that leaves detect_drift: its caller, the module's __main__ block, has no
\* handler, and the interpreter ends with the traceback.
DetectDriftReturn(d) ==
    IF d.exc # "none" THEN "raised" ELSE "True"

\* create_app after initialize_database.
InitializeDatabaseReturn(d) ==
    IF d.exc # "none" THEN "raised" ELSE d.value

\* The record of a call that returns: f is the frame as the database function
\* ends, d what that function delivers.
Outcome(f, d) ==
    [op |-> f.op,
     result |-> CASE f.op = "predict" -> PredictResponse(d)
                  [] f.op = "detect_drift" -> DetectDriftReturn(d)
                  [] OTHER -> InitializeDatabaseReturn(d),
     log_success |-> IF f.op = "predict" /\ d.exc = "none" THEN d.value ELSE "none",
     ret |-> d.value, exc |-> d.exc, err |-> f.err, attempts |-> f.attempts,
     committed |-> f.committed, called_log |-> f.called_log, rows |-> f.rows,
     path |-> f.path]

\* The record of a call that ends before it reaches a database function:
\* path names the place where it ended.
EarlyOutcome(op, result, rows, path) ==
    [NoCall EXCEPT !.op = op, !.result = result, !.rows = rows, !.path = path]

\* The exit paths of a database function that was entered.
DbPaths ==
    {"no_conn", "no_cursor", "stmt_failed", "second_failed", "commit_failed", "ok"}

\* `if not conn: return False`: the database function ends without a
\* connection and its caller carries on.
NoConnection(f) ==
    LET g == [f EXCEPT !.ret = "False", !.path = "no_conn"]
    IN  Outcome(g, Delivered(g))

\* ---------------------------------------------------------------- the tables

RECURSIVE RowsAt(_, _)
\* Rows of the table whose timestamp is one of the given instants.
RowsAt(table, instants) ==
    IF instants = {} THEN 0
    ELSE LET d == CHOOSE x \in instants : TRUE
         IN  table[d] + RowsAt(table, instants \ {d})

\* Rows of the predictions table with a timestamp of day d or later.
RowsSince(table, d) == RowsAt(table, {x \in DOMAIN table : x >= d})

\* SELECT ... WHERE timestamp >= now - 7 days ORDER BY timestamp DESC LIMIT 50:
\* the number of rows fetched.
FetchedRows(table, today) ==
    LET inside == RowsSince(table, today - WindowDays)
    IN  IF inside > RowLimit THEN RowLimit ELSE inside

\* The gate as a test for any rows at all.
SampleOf_nonempty(fetched) == IF fetched > 0 THEN fetched ELSE -1

\* get_recent_predictions' result: the sample's size, or -1 for None.
SampleOf(fetched) == IF fetched >= MinSample THEN fetched ELSE -1

\* round(float(share), 3), in thousandths, of drifted / NumFeatures.
drift_share(drifted) == (2000 * drifted + NumFeatures) \div (2 * NumFeatures)

\* The verdict with the threshold itself counted as drift.
dataset_drift_inclusive(share) == share >= 500

\* dataset_drift = drift_share > 0.5
dataset_drift(share) == share > 500

\* The row log_drift_result inserts for detect_drift's call, from the number
\* of drifted columns the report counted and the size of the sample.
DriftRow(drifted, sample) ==
    [drift_detected |-> dataset_drift(drift_share(drifted)),
     drift_score |-> drift_share(drifted),
     drifted_columns |-> drifted,
     sample_size |-> sample]

\* ---------------------------------------------------------------- pool construction

\* pool.getconn() for the thread whose locals are f; a PoolError or a refused
\* connection ends in get_db_connection's handler, the database function
\* returns False and its caller runs to its end.
PoolGetConn(t, f) ==
    \E connect_ok \in BOOLEAN :
        LET r == getconn(pool_idle, pool_used, connect_ok)
        IN  /\ pool_idle' = r.idle
            /\ pool_used' = r.used
            /\ IF r.ok
               THEN /\ frame' = [frame EXCEPT ![t] =
                           [f EXCEPT !.pc = "stmt", !.conn = TRUE]]
                    /\ last' = last
               ELSE /\ frame' = [frame EXCEPT ![t] = IdleFrame]
                    /\ last' = NoConnection(get_db_connection_except(f, r.error))

\* with _pool_lock: a thread that saw no pool waits for the lock.
AcquireLock(t) ==
    /\ frame[t].pc = "gcp_lock"
    /\ pool_lock = 0
    /\ pool_lock' = t
    /\ frame' = [frame EXCEPT ![t].pc = "gcp_locked"]
    /\ UNCHANGED <<connection_pool, constructed, pool_idle, pool_used, direct,
                   schema, predictions, inserted, drift_reports, now, last>>

\* get_connection_pool trying again after a constructor error.
ConstructPool_retrying(t) ==
    /\ frame[t].pc = "gcp_locked"
    /\ pool_lock' = 0
    /\ IF NeedsConstruction
       THEN \E connect_ok \in BOOLEAN :
              LET f == [frame[t] EXCEPT !.attempts = @ + 1]
              IN  IF connect_ok
                  THEN /\ constructed' = constructed + 1
                       /\ connection_pool' = constructed + 1
                       /\ pool_idle' = minconn
                       /\ pool_used' = 0
                       /\ frame' = [frame EXCEPT ![t] =
                              [f EXCEPT !.pc = "getconn",
                                        !.pool = constructed + 1]]
                       /\ last' = last
                  ELSE /\ frame' = [frame EXCEPT ![t] =
                              [f EXCEPT !.pc = "gcp_lock"]]
                       /\ UNCHANGED <<constructed, connection_pool, pool_idle,
                                      pool_used, last>>
       ELSE /\ PoolGetConn(t, [frame[t] EXCEPT !.pool = connection_pool])
            /\ UNCHANGED <<constructed, connection_pool>>
    /\ UNCHANGED <<direct, schema, predictions, inserted, drift_reports, now>>

\* Inside the lock: test again, construct the pool (its minconn connections
\* are opened by the constructor, which raises if the server refuses), leave
\* the lock, return the global.  A constructor error leaves the global None
\* and ends get_db_connection in its handler.
ConstructPool(t) ==
    /\ frame[t].pc = "gcp_locked"
    /\ pool_lock' = 0
    /\ IF NeedsConstruction
       THEN \E connect_ok \in BOOLEAN :
              LET f == [frame[t] EXCEPT !.attempts = @ + 1]
              IN  IF connect_ok
                  THEN /\ constructed' = constructed + 1
                       /\ connection_pool' = constructed + 1
                       /\ pool_idle' = minconn
                       /\ pool_used' = 0
                       /\ frame' = [frame EXCEPT ![t] =
                              [f EXCEPT !.pc = "getconn",
                                        !.pool = constructed + 1]]
                       /\ last' = last
                  ELSE /\ frame' = [frame EXCEPT ![t] = IdleFrame]
                       /\ last' = NoConnection(
                              get_db_connection_except(f, "ConnectionUnavailable"))
                       /\ UNCHANGED <<constructed, connection_pool, pool_idle,
                                      pool_used>>
       ELSE /\ PoolGetConn(t, [frame[t] EXCEPT !.pool = connection_pool])
            /\ UNCHANGED <<constructed, connection_pool>>
    /\ UNCHANGED <<direct, schema, predictions, inserted, drift_reports, now>>

\* get_db_connection() entered with the locals f: get_connection_pool tests
\* the global without the lock; it goes for the lock if it sees None, and
\* else returns the pool, whose getconn is called.
GetDbConnection(t, f) ==
    IF connection_pool = 0
    THEN /\ frame' = [frame EXCEPT ![t] = [f EXCEPT !.pc = "gcp_lock"]]
         /\ UNCHANGED <<pool_idle, pool_used, last>>
    ELSE PoolGetConn(t, [f EXCEPT !.pool = connection_pool])

\* pool.getconn() in get_db_connection, by the thread that constructed the pool.
GetConn(t) ==
    /\ frame[t].pc = "getconn"
    /\ PoolGetConn(t, frame[t])
    /\ UNCHANGED <<connection_pool, pool_lock, constructed, direct, schema,
                   predictions, inserted, drift_reports, now>>

\* ---------------------------------------------------------------- the database functions

\* The finally block of the three functions, entered with the locals f: the
\* cursor, if there is one, is closed and the connection goes back to the
\* pool; then the function returns and its caller runs to its end.
Finally(t, f) ==
    /\ LET r == return_connection(f, pool_idle, pool_used)
       IN  /\ pool_idle' = r.idle
           /\ pool_used' = r.used
    /\ last' = Outcome(f, Delivered(f))
    /\ frame' = [frame EXCEPT ![t] = IdleFrame]

\* log_prediction from its try block on: cursor, INSERT, commit.  Any
\* exception is caught and False returned; the row exists once the commit
\* has returned.
LogPrediction(t) ==
    /\ frame[t].pc = "stmt"
    /\ frame[t].op = "predict"
    /\ \E path \in {"no_cursor", "stmt_failed", "commit_failed", "ok"} :
         LET f == [frame[t] EXCEPT !.cur = (path # "no_cursor")]
         IN  IF path = "ok"
             THEN /\ "predictions" \in schema
                  /\ inserted < MaxInserts
                  /\ predictions' = [predictions EXCEPT ![now] = @ + 1]
                  /\ inserted' = inserted + 1
                  /\ Finally(t, [f EXCEPT !.ret = "True", !.committed = TRUE,
                                          !.path = "ok"])
             ELSE /\ UNCHANGED <<predictions, inserted>>
                  /\ Finally(t, log_except(f, path))
    /\ UNCHANGED <<connection_pool, pool_lock, constructed, direct, schema,
                   drift_reports, now>>

\* log_drift_result from its try block on, called by detect_drift with what
\* the report counted.
LogDriftResult(t) ==
    /\ frame[t].pc = "stmt"
    /\ frame[t].op = "detect_drift"
    /\ \E path \in {"no_cursor", "stmt_failed", "commit_failed", "ok"},
          drifted \in DriftedChoices :
         LET f == [frame[t] EXCEPT !.cur = (path # "no_cursor")]
         IN  IF path = "ok"
             THEN /\ "drift_reports" \in schema
                  /\ Len(drift_reports) < MaxReports
                  /\ drift_reports' =
                         Append(drift_reports, DriftRow(drifted, f.rows))
                  /\ Finally(t, [f EXCEPT !.ret = "True", !.committed = TRUE,
                                          !.path = "ok"])
             ELSE /\ UNCHANGED drift_reports
                  /\ Finally(t, log_except(f, path))
    /\ UNCHANGED <<connection_pool, pool_lock, constructed, direct, schema,
                   predictions, inserted, now>>

\* initialize_database from its try block on: autocommit, cursor, the two
\* CREATE TABLE IF NOT EXISTS statements, each taking effect as it runs.
InitializeDatabase(t) ==
    /\ frame[t].pc = "stmt"
    /\ frame[t].op = "initialize_database"
    /\ \E path \in {"no_cursor", "stmt_failed", "second_failed", "ok"} :
         LET f == [frame[t] EXCEPT !.cur = (path # "no_cursor")]
         IN  /\ schema' = CASE path = "ok" -> AllTables
                            [] path = "second_failed" -> schema \cup {"predictions"}
                            [] OTHER -> schema
             /\ IF path = "ok"
                THEN Finally(t, [f EXCEPT !.ret = "True", !.path = "ok"])
                ELSE Finally(t, log_except(f, path))
    /\ UNCHANGED <<connection_pool, pool_lock, constructed, direct, predictions,
                   inserted, drift_reports, now>>

\* ---------------------------------------------------------------- the calls

\* What predict answers when it ends before the prediction is logged.
PredictEarly ==
    [model_not_loaded |-> "500", no_json |-> "400", invalid |-> "400",
     features_failed |-> "400", model_failed |-> "500"]

\* POST /predict: the model is loaded, the body is JSON, validates,
\* transforms and is scored, or the handler answers with an error; then
\* log_prediction is called.
CallPredict(t) ==
    /\ frame[t].pc = "idle"
    /\ \E stage \in DOMAIN PredictEarly \cup {"ok"} :
         IF stage = "ok"
         THEN GetDbConnection(t, [IdleFrame EXCEPT !.op = "predict"])
         ELSE /\ frame' = frame
              /\ last' = EarlyOutcome("predict", PredictEarly[stage], -1, stage)
              /\ UNCHANGED <<pool_idle, pool_used>>
    /\ UNCHANGED <<connection_pool, pool_lock, constructed, direct, schema,
                   predictions, inserted, drift_reports, now>>

\* create_app calls initialize_database.
CallInitializeDatabase(t) ==
    /\ frame[t].pc = "idle"
    /\ GetDbConnection(t, [IdleFrame EXCEPT !.op = "initialize_database"])
    /\ UNCHANGED <<connection_pool, pool_lock, constructed, direct, schema,
                   predictions, inserted, drift_reports, now>>

\* detect_drift starts: the reference is read, then get_recent_predictions
\* opens its own connection with psycopg2.connect.  Neither call is guarded:
\* an exception leaves detect_drift.
CallDetectDrift(t) ==
    /\ frame[t].pc = "idle"
    /\ \E reference_ok \in BOOLEAN, connect_ok \in BOOLEAN :
         IF reference_ok /\ connect_ok
         THEN /\ direct' = direct + 1
              /\ frame' = [frame EXCEPT ![t] =
                     [IdleFrame EXCEPT !.op = "detect_drift", !.pc = "query"]]
              /\ last' = last
         ELSE /\ direct' = direct
              /\ frame' = frame
              /\ last' = EarlyOutcome("detect_drift", "raised", -1,
                             IF reference_ok THEN "connect_failed"
                             ELSE "reference_failed")
    /\ UNCHANGED <<connection_pool, pool_lock, constructed, pool_idle, pool_used,
                   schema, predictions, inserted, drift_reports, now>>

\* get_recent_predictions runs its SELECT and returns, which drops its
\* connection; detect_drift stops on None, else runs the report and calls
\* log_drift_result.
QueryRecent(t) ==
    /\ frame[t].pc = "query"
    /\ direct' = direct - 1
    /\ \E query_ok \in BOOLEAN, report_ok \in BOOLEAN :
         LET fetched == FetchedRows(predictions, now)
             sample == SampleOf(fetched)
         IN  IF ~(query_ok /\ "predictions" \in schema)
             THEN /\ frame' = [frame EXCEPT ![t] = IdleFrame]
                  /\ last' = EarlyOutcome("detect_drift", "raised", -1,
                                          "query_failed")
                  /\ UNCHANGED <<pool_idle, pool_used>>
             ELSE IF sample = -1
             THEN /\ frame' = [frame EXCEPT ![t] = IdleFrame]
                  /\ last' = EarlyOutcome("detect_drift", "False", fetched,
                                          "no_sample")
                  /\ UNCHANGED <<pool_idle, pool_used>>
             ELSE IF ~report_ok
             THEN /\ frame' = [frame EXCEPT ![t] = IdleFrame]
                  /\ last' = EarlyOutcome("detect_drift", "raised", fetched,
                                          "report_failed")
                  /\ UNCHANGED <<pool_idle, pool_used>>
             ELSE GetDbConnection(t, [frame[t] EXCEPT !.rows = sample,
                                                      !.called_log = TRUE])
    /\ UNCHANGED <<connection_pool, pool_lock, constructed, schema, predictions,
                   inserted, drift_reports, now>>

\* Time passes.
Tick ==
    /\ \E later \in Instants :
         /\ later > now
         /\ \A x \in Instants : x > now => later <= x
         /\ now' = later
    /\ UNCHANGED <<connection_pool, pool_lock, constructed, pool_idle, pool_used,
                   direct, schema, predictions, inserted, drift_reports, frame, last>>

\* ---------------------------------------------------------------- specifications

\* A process whose module has just been imported, over a database in the
\* given state.
Start(threads, tables, rows) ==
    /\ connection_pool = 0
    /\ pool_lock = 0
    /\ constructed = 0
    /\ pool_idle = 0
    /\ pool_used = 0
    /\ direct = 0
    /\ schema = tables
    /\ predictions = [d \in Instants |-> IF d = 0 THEN rows ELSE 0]
    /\ inserted = 0
    /\ drift_reports = <<>>
    /\ now = 0
    /\ frame = [t \in 1..threads |-> IdleFrame]
    /\ last = NoCall

\* The serving process: its request threads over an initialized database.
Init == Start(ServingThreads, AllTables, 0)

Next ==
    \E t \in Threads :
        \/ CallPredict(t)
        \/ AcquireLock(t)
        \/ ConstructPool(t)
        \/ GetConn(t)
        \/ LogPrediction(t)

Spec == Init /\ [][Next]_vars

\* A process that also starts up and runs drift checks, over a database that
\* is empty or already holds rows.
InitDrift ==
    \E tables \in {{}, AllTables}, rows \in InitialRows :
        /\ tables = {} => rows = 0
        /\ Start(JobThreads, tables, rows)

NextDrift ==
    \/ \E t \in Threads :
        \/ CallPredict(t)
        \/ CallInitializeDatabase(t)
        \/ CallDetectDrift(t)
        \/ QueryRecent(t)
        \/ AcquireLock(t)
        \/ ConstructPool(t)
        \/ GetConn(t)
        \/ LogPrediction(t)
        \/ LogDriftResult(t)
        \/ InitializeDatabase(t)
    \/ Tick

SpecDrift == InitDrift /\ [][NextDrift]_vars

\* ---------------------------------------------------------------- claims

\* The threads that hold a connection of the pool.
Holders == {t \in Threads : frame[t].conn}

\* C1: however the first calls of the threads interleave while there is no
\* pool, one pool object is constructed, the global names it from then on,
\* and every thread that has a pool in hand has that one.
C1_PoolSingleton ==
    /\ constructed <= 1
    /\ connection_pool = constructed
    /\ \A t \in Threads : frame[t].pool \in {0, connection_pool}

\* C1's case: every thread made its first call while there was no pool; one
\* of them has constructed it and the others, which all saw None, are still
\* on their way to the lock.
C1_Witness ==
    /\ constructed = 1
    /\ \E t \in Threads :
         /\ frame[t].pc = "getconn"
         /\ frame[t].pool = 1
         /\ \A u \in Threads \ {t} : frame[u].pc = "gcp_lock"

\* C2: never more than maxconn connections are in use; while maxconn are in
\* use getconn answers PoolExhausted, no caller obtains a connection and the
\* thread about to call getconn can take its step (it is not made to wait);
\* once a connection has been released from the full pool, getconn succeeds,
\* whether or not the server accepts new connections.
C2_PoolBound ==
    /\ pool_used <= maxconn
    /\ [][/\ pool_used' <= maxconn
          /\ pool_used = maxconn =>
               /\ \A connect_ok \in BOOLEAN :
                    getconn(pool_idle, pool_used, connect_ok).error = "PoolExhausted"
               /\ \A t \in Threads :
                    /\ ~frame[t].conn => ~frame'[t].conn
                    /\ frame[t].pc = "getconn" => ENABLED GetConn(t)
          /\ (last' # last /\ last'.err = "PoolExhausted") =>
               /\ pool_used = maxconn
               /\ last'.ret = "False"
          /\ (pool_used = maxconn /\ pool_used' < maxconn) =>
               \A connect_ok \in BOOLEAN :
                    getconn(pool_idle', pool_used', connect_ok).ok
         ]_vars

\* C2's case: maxconn connections are held and the call of one more thread
\* has just ended with PoolExhausted.
C2_Witness ==
    /\ pool_used = maxconn
    /\ Cardinality(Holders) = maxconn
    /\ last.err = "PoolExhausted"
    /\ last.path = "no_conn"

\* C3: a connection is in use only while a thread is inside the database
\* function that acquired it: whichever way log_prediction, log_drift_result
\* or initialize_database ends, its connection has left the in-use set (the
\* pool keeps it idle, or closes it when minconn are idle already), so that
\* with no call in progress nothing is in use, the pool holds its minconn
\* idle connections and all maxconn can be handed out again.
C3_NoLeak ==
    /\ pool_used = Cardinality(Holders)
    /\ \A t \in Threads : frame[t].conn => frame[t].pc = "stmt"
    /\ pool_idle + pool_used <= maxconn
    /\ (connection_pool # 0 /\ pool_used = 0) => pool_idle = minconn

\* C3's case: log_prediction has just ended after its statement failed, and
\* its connection is idle in the pool again.
C3_Witness ==
    /\ last.op = "predict"
    /\ last.path = "stmt_failed"
    /\ pool_used = 0
    /\ pool_idle = minconn
    /\ \A t \in Threads : frame[t].pc = "idle"

\* C4: detect_drift returns True exactly when its run wrote a drift_reports
\* row and False exactly when the run was skipped for want of a sample.
C4_RunResult ==
    last.op = "detect_drift" =>
        /\ last.result = "True" <=> last.committed
        /\ last.result = "False" <=> last.path = "no_sample"

\* C5: a run of detect_drift whose read of the window fetched fewer than
\* MinSample rows returns False, has not called log_drift_result and has
\* written no drift_reports row.
C5_SampleGate ==
    (last.op = "detect_drift" /\ last.rows >= 0 /\ last.rows < MinSample) =>
        /\ last.result = "False"
        /\ ~last.called_log
        /\ ~last.committed

\* C5's case: the window held MinSample - 1 rows and the run has returned False.
C5_Witness ==
    /\ last.op = "detect_drift"
    /\ last.rows = MinSample - 1
    /\ last.result = "False"
    /\ drift_reports = <<>>

\* C6: log_prediction and log_drift_result hand their caller True or False
\* and never an exception; True exactly when the INSERT was committed, False
\* on every other path; the finally block leaves that value as it was.
C6_LogNeverRaises ==
    (last.op \in {"predict", "detect_drift"} /\ last.path \in DbPaths) =>
        /\ last.exc = "none"
        /\ last.ret \in {"True", "False"}
        /\ last.ret = "True" <=> last.committed
        /\ last.ret = "True" <=> last.path = "ok"

\* C6's case: log_drift_result has returned False after its commit failed,
\* and its connection has been released.
C6_Witness ==
    /\ last.op = "detect_drift"
    /\ last.path = "commit_failed"
    /\ last.ret = "False"
    /\ pool_used = 0

\* C7: a call in which the construction of the pool fails ends without a
\* connection, with ConnectionUnavailable, after that one attempt; the global
\* stays None, so that the next call makes the next attempt.
C7_NoInternalRetry ==
    /\ \A t \in Threads : frame[t].attempts <= 1
    /\ last.attempts <= 1
    /\ last.err = "ConnectionUnavailable" =>
         /\ last.path = "no_conn"
         /\ last.ret = "False"
    /\ (last.attempts = 1 /\ constructed = 0) =>
         /\ last.err = "ConnectionUnavailable"
         /\ connection_pool = 0

\* C7's case: the constructor has failed in a call, which ended with
\* ConnectionUnavailable, and there is still no pool.
C7_Witness ==
    /\ last.attempts = 1
    /\ last.err = "ConnectionUnavailable"
    /\ connection_pool = 0

\* C8: a /predict request that reached log_prediction is answered with the
\* prediction (200), whatever became of the log.
C8_ResponseDespiteTelemetry ==
    (last.op = "predict" /\ last.path \in DbPaths) =>
        /\ last.result = "200"
        /\ last.log_success \in {"True", "False"}

\* C8's case: the pool was exhausted, the log failed, and the answer was the
\* prediction.
C8_Witness ==
    /\ last.op = "predict"
    /\ last.err = "PoolExhausted"
    /\ last.log_success = "False"
    /\ last.result = "200"

\* C9: a run whose reference load or report fails writes no drift_reports
\* row, and the failure stays inside the run: no exception reaches the
\* process that started it.
C9_FailureConfined ==
    last.path \in {"reference_failed", "report_failed"} =>
        /\ ~last.called_log
        /\ ~last.committed
        /\ last.result # "raised"

\* C10: every connection of the process belongs to the pool: none is opened
\* beside it, and no more than maxconn are open.
C10_PoolOnly ==
    /\ direct = 0
    /\ pool_idle + pool_used + direct <= maxconn

\* C11: in every drift_reports row that detect_drift persisted, drift_score is
\* the share of drifted columns among the NumFeatures columns rounded to 3
\* decimals (in thousandths), and drift_detected is true exactly when that
\* score is strictly greater than 0.5, which is exactly when a strict majority
\* of the columns drifted; of the scores a share of the columns rounds to and
\* of the scores at the threshold, 0.5 itself and everything below give
\* drift_detected = false.
C11_StrictMajority ==
    /\ \A i \in DOMAIN drift_reports :
         LET row == drift_reports[i]
         IN  /\ 2 * NumFeatures * row.drift_score
                   <= 2000 * row.drifted_columns + NumFeatures
             /\ 2 * NumFeatures * (row.drift_score + 1)
                   > 2000 * row.drifted_columns + NumFeatures
             /\ row.drift_detected <=> row.drift_score > 500
             /\ row.drift_detected <=> 2 * row.drifted_columns > NumFeatures
    /\ \A share \in {drift_share(d) : d \in 0..NumFeatures} \cup {499, 500, 501} :
         dataset_drift(share) <=> share > 500
    /\ ~dataset_drift(500)

\* C11's case: detect_drift has persisted the row of the narrowest majority,
\* 8 of the 15 columns drifted, with score 0.533 and drift_detected true.
C11_Witness ==
    /\ last.op = "detect_drift"
    /\ last.committed
    /\ \E i \in DOMAIN drift_reports :
         /\ 2 * drift_reports[i].drifted_columns = NumFeatures + 1
         /\ drift_reports[i].drift_score = 533
         /\ drift_reports[i].drift_detected

====
